---- MODULE Spec2Model ----
(***************************************************************************)
(* Label rendering pipeline of labelync: dynamic text fitting             *)
(* (calculateFontSize), composition of fields and documents               *)
(* (drawSVGTemplate / updateSVGTextFields), the Floyd-Steinberg pass over *)
(* the canvas image data, the canvas size (useCanvas), the frames of a    *)
(* print job and the print jobs on one connection, the renders of the     *)
(* canvas and the Print button, the state of App with its settings        *)
(* dialogs, and the changelog written by the version script.              *)
(*                                                                        *)
(* Numbers.  Font sizes are JavaScript doubles; every size the code       *)
(* computes is a dyadic rational, so a size s is represented exactly by   *)
(* the integer s * Scale.  Widths are represented in units of             *)
(* 1/(EmParts * Scale) px, so that advance * size is exact.               *)
(***************************************************************************)
EXTENDS Integers, Sequences, FiniteSets, TLC

VARIABLES
    \* ---- one field of the template and its value
    value,            \* the field's value: a sequence of characters
    tspanCount,       \* number of <tspan> children the placeholder declares
    originalFontSize, \* declared font-size attribute (scaled)
    maxTextWidth,     \* svgWidth - 2 * padding (width units)
    metric,           \* how getBBox measures: "proportional" | "arbitrary"
    \* ---- drawSVGTemplate / updateSVGTextFields, one forEach iteration
    pc,
    lines,            \* value.split('\n')
    longestLine,
    adjustedFontSize,
    fontSizeAttr,     \* font-size attribute written to the element
    newTspans,        \* tspans appended to a multi-line element
    textContent,      \* textContent written to a single-line element
    \* ---- calculateFontSize
    text,
    currentWidth,
    fontSize,
    minSize,
    maxSize,
    enteredSearch,    \* history: line 229 was reached
    iterations,       \* history: number of loop iterations executed
    \* ---- dithering pass of img.onload
    canvasW,
    canvasH,
    input,            \* image data as returned by getImageData
    data,             \* imageData.data, a Uint8ClampedArray
    di,               \* loop variable i
    oldPixel,         \* locals of the loop body (thousandths)
    newPixel,
    quantError,
    dpc,
    \* ---- App state read by the useCanvas effect
    printerConfig,    \* the PrinterConfig held by App
    effectPending,    \* the effect has yet to run for the current state
    sizeFor,          \* history: canvas size the effect last set, per
                      \* orientation, since the paper size last changed
    \* ---- composition of the whole document
    composer,         \* "drawSVGTemplate" | "updateSVGTextFields"
    svgTemplate,      \* the template's markup, as the document it parses to
    textFields,       \* the field values: a function on a set of ids
    svgDoc,           \* the document the composition works on
    entries,          \* Object.entries(textFields) still to be visited
    cpc,
    textFields0,      \* history: the field values of the first render
    svgDoc0,          \* history: the document the first render produced
    firstDone,        \* history: the first render has finished
    strayed,          \* history: a render with other values has finished
    \* ---- a print job
    bitmap,           \* the 1-bit image: rows of bits, 1 = black
    frames,           \* the frames produced so far
    rowsPacked,       \* rows of the bitmap already put into raster frames
    ppc,
    \* ---- print jobs on one connection
    jobs,             \* per job: its phase and the frames it has written
    wire,             \* the writes the connection has received, in order
    holder,           \* the job whose write sequence is in flight
    arrivedBusy,      \* history: a job was requested during a transmission
    \* ---- the version script
    packageVersion,   \* packageJson.version: <<major, minor, patch>>
    historyExists,    \* CHANGELOG.md exists
    historyText,      \* the text of CHANGELOG.md: a sequence of tokens
    released,         \* history: the entries written, newest first
    runs,             \* history: number of runs of the script
    \* ---- renders of the canvas and the Print button
    stateNo,          \* number of the current state (template, field
                      \* values and config) of App
    renderDue,        \* the useCanvas effect has yet to run for that state
    loading,          \* the states whose image is loading
    canvas,           \* what the canvas holds
    handed,           \* history: the canvases handed to printImage
    \* ---- the state of App and of its settings dialogs
    deviceId,         \* deviceId of usePrinter; NoDevice when not connected
    saved,            \* the configs savePrinterConfig has stored, by device
    storedTemplates,  \* ids of the templates getTemplate finds
    currentTemplate,
    textFieldValues,
    isSetupModalOpen,
    isPaperSettingsModalOpen,
    setupLocal,       \* localConfig of PrinterSetupModal
    setupSynced,      \* that localConfig is the config object itself
    paperLocal,       \* localConfig of PaperSettingsModal
    setupEdited,      \* history: handleChange ran since the dialog opened
    paperEdited,
    cancelled,        \* history: the dialogs last closed without a save
    lastOp            \* history: the last operation

fitVars == <<value, tspanCount, originalFontSize, maxTextWidth, metric, pc,
             lines, longestLine, adjustedFontSize, fontSizeAttr, newTspans,
             textContent, text, currentWidth, fontSize, minSize, maxSize,
             enteredSearch, iterations>>
ditherVars == <<canvasW, canvasH, input, data, di, oldPixel, newPixel,
                quantError, dpc>>
canvasVars == <<printerConfig, effectPending, sizeFor>>
composeVars == <<composer, svgTemplate, textFields, svgDoc, entries, cpc,
                 textFields0, svgDoc0, firstDone, strayed>>
printVars == <<bitmap, frames, rowsPacked, ppc>>
transmitVars == <<jobs, wire, holder, arrivedBusy>>
versionVars == <<packageVersion, historyExists, historyText, released, runs>>
renderVars == <<stateNo, renderDue, loading, canvas, handed>>
appVars == <<deviceId, saved, storedTemplates, currentTemplate,
             textFieldValues, isSetupModalOpen, isPaperSettingsModalOpen,
             setupLocal, setupSynced, paperLocal, setupEdited, paperEdited,
             cancelled, lastOp>>
extraVars == <<transmitVars, versionVars, renderVars, appVars>>
restVars == <<canvasVars, composeVars, printVars, extraVars>>
notCanvasVars == <<fitVars, composeVars, printVars, extraVars>>
notComposeVars == <<fitVars, ditherVars, canvasVars, printVars, extraVars>>
notPrintVars == <<fitVars, ditherVars, canvasVars, composeVars, extraVars>>
notTransmitVars == <<fitVars, ditherVars, canvasVars, composeVars, printVars,
                     versionVars, renderVars, appVars>>
notVersionVars == <<fitVars, ditherVars, canvasVars, composeVars, printVars,
                    transmitVars, renderVars, appVars>>
notRenderVars == <<fitVars, ditherVars, canvasVars, composeVars, printVars,
                   transmitVars, versionVars, appVars>>
notAppVars == <<fitVars, ditherVars, effectPending, sizeFor, composeVars,
                printVars, transmitVars, versionVars, renderVars>>
notFitVars == <<ditherVars, restVars>>
notDitherVars == <<fitVars, restVars>>
vars == <<fitVars, ditherVars, restVars>>

-----------------------------------------------------------------------------
(* Bounds of the model *)

MaxLen == 3        \* longest field value, in characters
MinBase == 6       \* smallest declared font size
MaxBase == 11      \* largest declared font size
MaxBox == 6        \* widest text box, in steps of 4 px
MaxTspans == 1     \* most tspans a placeholder declares
MaxW == 3          \* widest canvas, in pixels
MaxH == 3          \* tallest canvas, in pixels
MaxMm == 5         \* largest paper width and height, in mm
MaxJobs == 2       \* most print requests on one connection
MaxRuns == 3       \* most runs of the version script
MaxChanges == 3    \* most changes of the state of App

(* Representation *)

Scale == 2 ^ 8               \* size units per font-size unit
Half == Scale \div 2         \* 0.5
EmParts == 2 * 2             \* advances are multiples of 1/4 em
Px(n) == n * EmParts * Scale \* n px in width units

(* Program constants *)

MinFontSize == 8   \* let minSize = 8

-----------------------------------------------------------------------------
(* Text *)

NL == "\n"
Chars == {"i", "m", NL}

\* Horizontal advance of a character, in 1/EmParts em (sans-serif is
\* proportional: a narrow and a wide glyph; a line break has no advance).
Advance(c) == IF c = "i" THEN 1 ELSE IF c = "m" THEN 3 ELSE 0

RECURSIVE TextAdvance(_)
TextAdvance(s) == IF s = <<>> THEN 0 ELSE Advance(Head(s)) + TextAdvance(Tail(s))

\* tempText.getBBox().width with font-size = size, for a proportional font.
MeasureWidth(s, size) == TextAdvance(s) * size

\* The widths getBBox may report.  "arbitrary" stands for any measurement
\* function whatever: each call answers either "fits" or "does not fit".
BBoxWidths(s, size) ==
    IF metric = "proportional" THEN {MeasureWidth(s, size)}
    ELSE {0, maxTextWidth + 1}

\* value.split('\n')
RECURSIVE Split(_)
Split(s) ==
    IF s = <<>> THEN << <<>> >>
    ELSE LET rest == Split(Tail(s)) IN
         IF Head(s) = NL THEN << <<>> >> \o rest
         ELSE << <<Head(s)>> \o Head(rest) >> \o Tail(rest)

\* lines.forEach(line => { if (line.length > maxLineLength) ... })
RECURSIVE LongestFrom(_, _)
LongestFrom(ls, best) ==
    IF ls = <<>> THEN best
    ELSE LongestFrom(Tail(ls), IF Len(Head(ls)) > Len(best) THEN Head(ls) ELSE best)

LongestLine(ls) == LongestFrom(ls, <<>>)

\* Math.floor on a scaled size
Floor(size) == (size \div Scale) * Scale

RECURSIVE TextsOfLen(_)
TextsOfLen(n) ==
    IF n = 0 THEN {<<>>}
    ELSE {<<c>> \o s : c \in Chars, s \in TextsOfLen(n - 1)}

Texts == UNION {TextsOfLen(n) : n \in 0..MaxLen}
BaseSizes == {h * Half : h \in (2 * MinBase)..(2 * MaxBase)}
BoxWidths == {Px(4 * k) : k \in 0..MaxBox}

-----------------------------------------------------------------------------
(* Composition of one field *)

InitFit ==
    /\ value \in Texts
    /\ tspanCount \in 0..MaxTspans
    /\ originalFontSize \in BaseSizes
    /\ maxTextWidth \in BoxWidths
    /\ metric \in {"proportional", "arbitrary"}
    /\ pc = "field"
    /\ lines = <<>>
    /\ longestLine = <<>>
    /\ adjustedFontSize = originalFontSize
    /\ fontSizeAttr = originalFontSize
    /\ newTspans = <<>>
    /\ textContent = <<>>
    /\ text = <<>>
    /\ currentWidth = 0
    /\ fontSize = originalFontSize
    /\ minSize = 0
    /\ maxSize = 0
    /\ enteredSearch = FALSE
    /\ iterations = 0

fitInputs == <<value, tspanCount, originalFontSize, maxTextWidth, metric>>
cfsLocals == <<currentWidth, fontSize, minSize, maxSize, enteredSearch, iterations>>
written == <<fontSizeAttr, newTspans, textContent>>

\* tspans.length > 0: split the value and size by the longest line.
MultiLinePrepare ==
    /\ pc = "field"
    /\ tspanCount > 0
    /\ lines' = Split(value)
    /\ longestLine' = LongestLine(lines')
    /\ IF longestLine' # <<>>
       THEN /\ text' = longestLine'
            /\ pc' = "cfs"
       ELSE /\ text' = text
            /\ pc' = "write"
    /\ UNCHANGED <<notFitVars, fitInputs, cfsLocals, written, adjustedFontSize>>

\* no tspans: const text = value || ''
SingleLinePrepare ==
    /\ pc = "field"
    /\ tspanCount = 0
    /\ text' = value
    /\ pc' = "cfs"
    /\ UNCHANGED <<notFitVars, fitInputs, cfsLocals, written, adjustedFontSize, lines, longestLine>>

\* if (currentWidth <= maxWidth)
Fits(w) == w <= maxTextWidth

\* variant: the declared size is floored like the search result
FittingResultFloored == Floor(originalFontSize)

\* return originalFontSize (the text fits at the declared size)
FittingResult == originalFontSize

\* variant: the comparison of the search step inverted
TooWideInverted(w) == w < maxTextWidth

\* if (currentWidth > maxWidth) maxSize = fontSize; else minSize = fontSize
TooWide(w) == w > maxTextWidth

\* if (!text) return originalFontSize
CfsEmptyText ==
    /\ pc = "cfs"
    /\ text = <<>>
    /\ adjustedFontSize' = originalFontSize
    /\ pc' = "write"
    /\ UNCHANGED <<notFitVars, fitInputs, cfsLocals, written, lines, longestLine, text>>

\* measure at the original size; return it when the text fits, else set up
\* the binary search
CfsMeasureOriginal ==
    /\ pc = "cfs"
    /\ text # <<>>
    /\ \E w \in BBoxWidths(text, originalFontSize) :
          /\ currentWidth' = w
          /\ fontSize' = originalFontSize
          /\ IF Fits(w)
             THEN /\ adjustedFontSize' = FittingResult
                  /\ pc' = "write"
                  /\ UNCHANGED <<minSize, maxSize, enteredSearch>>
             ELSE /\ minSize' = MinFontSize * Scale
                  /\ maxSize' = originalFontSize
                  /\ enteredSearch' = TRUE
                  /\ pc' = "loop"
                  /\ UNCHANGED adjustedFontSize
    /\ UNCHANGED <<notFitVars, fitInputs, written, lines, longestLine, text, iterations>>

\* variant: tolerance 1 instead of 0.5
LoopGuardCoarse == maxSize - minSize > Scale

\* while (maxSize - minSize > 0.5)
LoopGuard == maxSize - minSize > Half

\* one iteration of the binary search
CfsSearchStep ==
    /\ pc = "loop"
    /\ LoopGuard
    /\ fontSize' = (minSize + maxSize) \div 2
    /\ \E w \in BBoxWidths(text, fontSize') :
          /\ currentWidth' = w
          /\ IF TooWide(w)
             THEN maxSize' = fontSize' /\ minSize' = minSize
             ELSE minSize' = fontSize' /\ maxSize' = maxSize
    /\ iterations' = iterations + 1
    /\ UNCHANGED <<notFitVars, fitInputs, written, lines, longestLine, text, pc,
                   adjustedFontSize, enteredSearch>>

\* variant: Math.ceil instead of Math.floor
SearchResultCeil == Floor(minSize + Scale - 1)

\* the value returned after the loop
SearchResult == Floor(minSize)

\* return Math.floor(minSize)
CfsSearchExit ==
    /\ pc = "loop"
    /\ ~LoopGuard
    /\ adjustedFontSize' = SearchResult
    /\ pc' = "write"
    /\ UNCHANGED <<notFitVars, fitInputs, cfsLocals, written, lines, longestLine, text>>

\* variant: empty lines get no tspan
TspansSkippingEmpty(ls) == SelectSeq(ls, LAMBDA l : l # <<>>)

\* lines.forEach((line, index) => { ... textElement.appendChild(tspan) })
TspansFor(ls) == ls

\* setAttribute('font-size', ...) and the new content of the element
WriteField ==
    /\ pc = "write"
    /\ fontSizeAttr' = adjustedFontSize
    /\ IF tspanCount > 0
       THEN newTspans' = TspansFor(lines) /\ textContent' = textContent
       ELSE textContent' = text /\ newTspans' = newTspans
    /\ pc' = "done"
    /\ UNCHANGED <<notFitVars, fitInputs, cfsLocals, lines, longestLine, text, adjustedFontSize>>

NextFit ==
    \/ MultiLinePrepare
    \/ SingleLinePrepare
    \/ CfsEmptyText
    \/ CfsMeasureOriginal
    \/ CfsSearchStep
    \/ CfsSearchExit
    \/ WriteField

-----------------------------------------------------------------------------
(* Dithering pass of img.onload *)

\* Samples are bytes; luminance and error are in thousandths, so that
\* 0.299 R + 0.587 G + 0.114 B is computed exactly.
\* variant: a blue weight of 0.144
LumHeavyBlue(r, g, b) == 299 * r + 587 * g + 144 * b

Lum(r, g, b) == 299 * r + 587 * g + 114 * b

Black == <<0, 0, 0>>
White == <<255, 255, 255>>
Colours == {Black, White, <<100, 100, 100>>, <<200, 200, 200>>,
            <<255, 0, 0>>, <<40, 90, 250>>}
Patterns == {"uniform", "columns", "rows", "checker"}

\* which of the two colours pixel (x, y) of the drawn image has
FirstColour(p, x, y) ==
    CASE p = "uniform" -> TRUE
      [] p = "columns" -> x % 2 = 0
      [] p = "rows"    -> y % 2 = 0
      [] OTHER         -> (x + y) % 2 = 0

\* ctx.getImageData(0, 0, canvas.width, canvas.height).data: RGBA, row-major
ImageData(w, h, a, b, p) ==
    [k \in 0..(4 * w * h - 1) |->
        LET px == k \div 4
            c  == IF FirstColour(p, px % w, px \div w) THEN a ELSE b
        IN  IF k % 4 = 3 THEN 255 ELSE c[(k % 4) + 1]]

DataLength == 4 * canvasW * canvasH

\* Conversion on a store into a Uint8ClampedArray of the real num / den:
\* clamp to 0..255, round to nearest, ties to even.
ToUint8Clamp(num, den) ==
    IF num <= 0 THEN 0
    ELSE IF num >= 255 * den THEN 255
    ELSE LET q == num \div den
             r == num % den
         IN  IF 2 * r < den THEN q
             ELSE IF 2 * r > den THEN q + 1
             ELSE IF q % 2 = 0 THEN q ELSE q + 1

\* let oldPixel = data[i] * 0.299 + data[i + 1] * 0.587 + data[i + 2] * 0.114
OldPixel(d, i) == Lum(d[i], d[i + 1], d[i + 2])

\* const newPixel = oldPixel < 128 ? 0 : 255
NewPixel(d, i) == IF OldPixel(d, i) < 128 * 1000 THEN 0 ELSE 255

\* variant: the error taken with the opposite sign
QuantErrorNegated(d, i) == 1000 * NewPixel(d, i) - OldPixel(d, i)

\* const quantError = oldPixel - newPixel
QuantError(d, i) == OldPixel(d, i) - 1000 * NewPixel(d, i)

\* data[i] = data[i + 1] = data[i + 2] = newPixel
Quantize(d, i) ==
    [d EXCEPT ![i] = NewPixel(d, i), ![i + 1] = NewPixel(d, i), ![i + 2] = NewPixel(d, i)]

\* if (j < data.length) data[j] += quantError * k / 16
Diffuse(d, j, qe, k) ==
    IF j < DataLength
    THEN [d EXCEPT ![j] = ToUint8Clamp(d[j] * 16000 + qe * k, 16000)]
    ELSE d

\* the four diffusion statements of the loop body, in program order
DiffuseAll(d, i, qe) ==
    LET d1 == Diffuse(d, i + 4, qe, 7)
        d2 == Diffuse(d1, i + canvasW * 4 - 4, qe, 3)
        d3 == Diffuse(d2, i + canvasW * 4, qe, 5)
    IN  Diffuse(d3, i + canvasW * 4 + 4, qe, 1)

InitDither ==
    /\ canvasW \in 1..MaxW
    /\ canvasH \in 1..MaxH
    /\ \E a \in Colours, b \in Colours, p \in Patterns :
          input = ImageData(canvasW, canvasH, a, b, p)
    /\ data = input
    /\ di = 0
    /\ oldPixel = 0
    /\ newPixel = 0
    /\ quantError = 0
    /\ dpc = "loop"

\* loop head and the quantization of pixel i: oldPixel, newPixel, quantError
\* and data[i] = data[i + 1] = data[i + 2] = newPixel
QuantizePixel ==
    /\ dpc = "loop"
    /\ di < DataLength
    /\ oldPixel' = OldPixel(data, di)
    /\ newPixel' = NewPixel(data, di)
    /\ quantError' = QuantError(data, di)
    /\ data' = Quantize(data, di)
    /\ dpc' = "diffuse"
    /\ UNCHANGED <<notDitherVars, canvasW, canvasH, input, di>>

\* the four diffusion statements for pixel i, then i += 4
DiffusePixel ==
    /\ dpc = "diffuse"
    /\ data' = DiffuseAll(data, di, quantError)
    /\ di' = di + 4
    /\ dpc' = "loop"
    /\ UNCHANGED <<notDitherVars, canvasW, canvasH, input, oldPixel, newPixel,
                   quantError>>

\* ctx.putImageData(imageData, 0, 0)
PutImageData ==
    /\ dpc = "loop"
    /\ ~(di < DataLength)
    /\ dpc' = "done"
    /\ UNCHANGED <<notDitherVars, canvasW, canvasH, input, data, di, oldPixel,
                   newPixel, quantError>>

NextDither ==
    \/ QuantizePixel
    \/ DiffusePixel
    \/ PutImageData

-----------------------------------------------------------------------------
(* The useCanvas effect: size of the canvas *)

\* const mmToPx = (mm) => mm * 203 / 25.4, as a number of 1/PxUnit px
\* (203 / 25.4 = 1015 / 127)
PxUnit == 127
mmToPx(mm) == mm * 1015

\* Assignment of a number to canvas.width / canvas.height: the attribute is
\* an unsigned long, the fraction is dropped.
ToUnsignedLong(px) == px \div PxUnit

Orientations == {"portrait", "landscape"}
PaperMm == 0..MaxMm

\* the configurations App holds; the fields the effect does not read keep
\* the documented defaults
Configs ==
    [deviceModel : {"M110"}, darkness : {8}, speed : {5}, paperType : {10},
     paperWidth : PaperMm, paperHeight : PaperMm, orientation : Orientations]

NoSize == <<>>

\* variant: the height is not swapped in landscape
DisplayHeightUnswapped(c) == c.paperHeight

\* const displayWidth = isLandscape ? paperHeight : paperWidth
DisplayWidth(c) ==
    IF c.orientation = "landscape" THEN c.paperHeight ELSE c.paperWidth

\* const displayHeight = isLandscape ? paperWidth : paperHeight
DisplayHeight(c) ==
    IF c.orientation = "landscape" THEN c.paperWidth ELSE c.paperHeight

\* canvas.width = widthPx; canvas.height = heightPx
CanvasSize(c) ==
    <<ToUnsignedLong(mmToPx(DisplayWidth(c))),
      ToUnsignedLong(mmToPx(DisplayHeight(c)))>>

InitCanvas ==
    /\ printerConfig \in Configs
    /\ effectPending = TRUE
    /\ sizeFor = [o \in Orientations |-> NoSize]
    /\ canvasW = 300     \* size of a canvas element before the effect runs
    /\ canvasH = 150

ditherLocals == <<input, data, di, oldPixel, newPixel, quantError, dpc>>

\* device connect: setPrinterConfig(savedConfig)
LoadPrinterConfig ==
    /\ \E c \in Configs :
          /\ printerConfig' = c
          /\ sizeFor' = IF c.paperWidth = printerConfig.paperWidth
                           /\ c.paperHeight = printerConfig.paperHeight
                        THEN sizeFor
                        ELSE [o \in Orientations |-> NoSize]
    /\ effectPending' = TRUE
    /\ UNCHANGED <<notCanvasVars, ditherLocals, canvasW, canvasH>>

\* handleSavePaperSettings: { ...printerConfig, ...paperSettings }
handleSavePaperSettings ==
    /\ \E w \in PaperMm, h \in PaperMm :
          /\ printerConfig' = [printerConfig EXCEPT !.paperWidth = w,
                                                    !.paperHeight = h]
          /\ sizeFor' = IF w = printerConfig.paperWidth
                           /\ h = printerConfig.paperHeight
                        THEN sizeFor
                        ELSE [o \in Orientations |-> NoSize]
    /\ effectPending' = TRUE
    /\ UNCHANGED <<notCanvasVars, ditherLocals, canvasW, canvasH>>

\* the effect of useCanvas, up to the call of drawSVGTemplate
UseCanvasEffect ==
    /\ effectPending
    /\ canvasW' = CanvasSize(printerConfig)[1]
    /\ canvasH' = CanvasSize(printerConfig)[2]
    /\ sizeFor' = [sizeFor EXCEPT ![printerConfig.orientation] = <<canvasW', canvasH'>>]
    /\ effectPending' = FALSE
    /\ UNCHANGED <<notCanvasVars, ditherLocals, printerConfig>>

NextCanvas ==
    \/ LoadPrinterConfig
    \/ handleSavePaperSettings
    \/ UseCanvasEffect

-----------------------------------------------------------------------------
(* Composition of the document: drawSVGTemplate and updateSVGTextFields *)

\* Vertical positions and line advances are in units of 1 / Scale px.

SvgWidth == 60     \* width attribute of the <svg> element, px
Padding == 20      \* const padding = 20
TextY == 50        \* y of the placeholders' first line, px
TextX == 192       \* x of the placeholders
DeclaredAdvance == 40  \* distance of the two declared lines, px
FallbackY == 100   \* getAttribute('y') || '100'

\* ids of the template's text elements: "a" has no tspan, "b" has tspans
TemplateIds == {"a", "b"}
\* ids a field-values mapping may have: "x" is no element of the template
FieldIds == TemplateIds \cup {"x"}

\* const maxTextWidth = svgWidth - (padding * 2)
MaxTextWidth == Px(SvgWidth - Padding * 2)

\* a <tspan> positioned by a y or by a dy attribute
Tspan(t, byDy, pos) ==
    [text |-> t, x |-> TextX, hasY |-> ~byDy, y |-> IF byDy THEN 0 ELSE pos,
     hasDy |-> byDy, dy |-> IF byDy THEN pos ELSE 0]

\* the declared tspans of the multi-line placeholder
DeclaredTspans(n, byDy) ==
    [i \in 1..n |->
        IF i = 1 THEN Tspan(<<"m">>, byDy, IF byDy THEN 0 ELSE TextY * Scale)
        ELSE Tspan(<<"i">>, byDy,
                   IF byDy THEN DeclaredAdvance * Scale
                   ELSE (TextY + DeclaredAdvance) * Scale)]

\* a <text id=...> element
TextElement(size, baseline, t, tspans) ==
    [fontSize |-> size, baseline |-> baseline, y |-> TextY * Scale,
     text |-> t, tspans |-> tspans]

\* the documents the templates parse to
Templates ==
    {[a |-> TextElement(MaxBase * Scale, "auto", <<"m">>, <<>>),
      b |-> TextElement(MaxBase * Scale, bl, <<>>, DeclaredTspans(n, byDy))] :
        bl \in {"auto", "middle"}, n \in 1..2, byDy \in BOOLEAN}

\* values a field of the form may have
FieldTexts(id) ==
    IF id = "b"
    THEN {<<"i">>, <<"m", "m", "m", NL, "i">>, <<"i", NL, NL, "m">>}
    ELSE {<<"i">>, <<"m", "m", "m">>}

\* Record<string, string>
FieldValues ==
    UNION {{f \in [D -> Texts \cup FieldTexts("b")] :
              \A id \in D : f[id] \in FieldTexts(id)} : D \in SUBSET FieldIds}

\* the orders in which Object.entries may list the keys D
EntryOrders(D) ==
    {q \in [1..Cardinality(D) -> D] : \A d \in D : \E i \in DOMAIN q : q[i] = d}

\* calculateFontSize, measured with the proportional font
RECURSIVE BinarySearch(_, _, _, _)
BinarySearch(t, maxWidth, lo, hi) ==
    IF hi - lo > Half
    THEN LET mid == (lo + hi) \div 2
         IN  IF MeasureWidth(t, mid) > maxWidth
             THEN BinarySearch(t, maxWidth, lo, mid)
             ELSE BinarySearch(t, maxWidth, mid, hi)
    ELSE Floor(lo)

calculateFontSize(t, maxWidth, original) ==
    IF t = <<>> THEN original
    ELSE IF MeasureWidth(t, original) <= maxWidth THEN original
    ELSE BinarySearch(t, maxWidth, MinFontSize * Scale, original)

\* parseFloat(tspan.getAttribute('y') || fallback)
AttrY(t, fallback) == IF t.hasY THEN t.y ELSE fallback * Scale

\* adjustedFontSize of a multi-line element
AdjustedFontSize(e, ls) ==
    IF LongestLine(ls) # <<>>
    THEN calculateFontSize(LongestLine(ls), MaxTextWidth, e.fontSize)
    ELSE e.fontSize

\* originalFontSize * 1.25 / adjustedFontSize * 1.25
Times125(size) == (5 * size) \div 4

\* drawSVGTemplate: the new state of element e for the entry's value
DrawElement(e, v) ==
    IF Len(e.tspans) > 0
    THEN LET ls == Split(v)
             baseY == AttrY(e.tspans[1], FallbackY)
             lineHeight == IF Len(e.tspans) > 1
                           THEN AttrY(e.tspans[2], 0) - AttrY(e.tspans[1], 0)
                           ELSE Times125(e.fontSize)
         IN  [e EXCEPT !.fontSize = AdjustedFontSize(e, ls),
                       !.tspans = [i \in 1..Len(ls) |->
                                     [text |-> ls[i], x |-> e.tspans[1].x,
                                      hasY |-> TRUE,
                                      y |-> baseY + (i - 1) * lineHeight,
                                      hasDy |-> FALSE, dy |-> 0]]]
    ELSE [e EXCEPT !.fontSize = calculateFontSize(v, MaxTextWidth, e.fontSize),
                   !.text = v]

\* updateSVGTextFields: the new state of element e for the entry's value
UpdateElement(e, v) ==
    IF Len(e.tspans) > 0
    THEN LET ls == Split(v)
             adjusted == AdjustedFontSize(e, ls)
             usesDy == e.tspans[1].hasDy
             lineSpacing ==
                 IF usesDy
                 THEN IF Len(e.tspans) > 1
                         /\ e.tspans[2].hasDy /\ e.tspans[2].dy # 0
                      THEN e.tspans[2].dy
                      ELSE Times125(adjusted)
                 ELSE IF Len(e.tspans) > 1
                      THEN AttrY(e.tspans[2], 0) - AttrY(e.tspans[1], 0)
                      ELSE Times125(adjusted)
             verticalOffset ==
                 IF e.baseline = "middle" /\ Len(ls) > 1
                 THEN 0 - (((Len(ls) - 1) * lineSpacing) \div 2)
                 ELSE 0
         IN  [e EXCEPT !.fontSize = adjusted,
                       !.tspans = [i \in 1..Len(ls) |->
                           IF usesDy
                           THEN [text |-> ls[i], x |-> e.tspans[1].x,
                                 hasY |-> FALSE, y |-> 0, hasDy |-> TRUE,
                                 dy |-> IF i = 1 THEN verticalOffset
                                        ELSE lineSpacing]
                           ELSE [text |-> ls[i], x |-> e.tspans[1].x,
                                 hasY |-> TRUE,
                                 y |-> AttrY(e.tspans[1], FallbackY)
                                       + verticalOffset + (i - 1) * lineSpacing,
                                 hasDy |-> FALSE, dy |-> 0]]]
    ELSE [e EXCEPT !.fontSize = calculateFontSize(v, MaxTextWidth, e.fontSize),
                   !.text = v]

\* variant: the composition goes on with the document of the last call
ReusedDocument(markup, last) == last

\* parser.parseFromString(svgTemplate, 'image/svg+xml'): a new document,
\* whatever document the last call worked on
ParsedDocument(markup, last) == markup

\* variant: an entry without element ends the loop
AfterUnknownEnding(q) == <<>>

\* if (!textElement) return: forEach goes on with the next entry
AfterUnknown(q) == Tail(q)

InitCompose ==
    /\ composer \in {"drawSVGTemplate", "updateSVGTextFields"}
    /\ svgTemplate \in Templates
    /\ textFields \in FieldValues
    /\ svgDoc = svgTemplate
    /\ entries = <<>>
    /\ cpc = "pending"
    /\ textFields0 = textFields
    /\ svgDoc0 = svgTemplate
    /\ firstDone = FALSE
    /\ strayed = FALSE

composeInputs == <<composer, svgTemplate, textFields>>
composeHistory == <<textFields0, svgDoc0, firstDone, strayed>>

\* handleTextFieldChange: { ...textFieldValues, [fieldId]: value }
handleTextFieldChange ==
    /\ cpc = "rendered"
    /\ \E fieldId \in TemplateIds : \E v \in FieldTexts(fieldId) :
          textFields' = [k \in DOMAIN textFields \cup {fieldId} |->
                            IF k = fieldId THEN v ELSE textFields[k]]
    /\ textFields' # textFields
    /\ cpc' = "pending"
    /\ UNCHANGED <<notComposeVars, composer, svgTemplate, svgDoc, entries,
                   composeHistory>>

\* parse the markup and start the forEach over the entries
ComposeStart ==
    /\ cpc = "pending"
    /\ svgDoc' = ParsedDocument(svgTemplate, svgDoc)
    /\ entries' \in EntryOrders(DOMAIN textFields)
    /\ cpc' = "entries"
    /\ UNCHANGED <<notComposeVars, composeInputs, composeHistory>>

\* an entry whose id is no element of the document
SkipUnknownEntry ==
    /\ cpc = "entries"
    /\ entries # <<>>
    /\ Head(entries) \notin DOMAIN svgDoc
    /\ entries' = AfterUnknown(entries)
    /\ UNCHANGED <<notComposeVars, composeInputs, composeHistory, svgDoc, cpc>>

\* an entry whose id is a text element of the document
UpdateTextElement ==
    /\ cpc = "entries"
    /\ entries # <<>>
    /\ Head(entries) \in DOMAIN svgDoc
    /\ LET id == Head(entries)
       IN  svgDoc' = [svgDoc EXCEPT ![id] =
                        IF composer = "drawSVGTemplate"
                        THEN DrawElement(svgDoc[id], textFields[id])
                        ELSE UpdateElement(svgDoc[id], textFields[id])]
    /\ entries' = Tail(entries)
    /\ UNCHANGED <<notComposeVars, composeInputs, composeHistory, cpc>>

\* serializer.serializeToString(svgDoc): the resolved document
SerializeDocument ==
    /\ cpc = "entries"
    /\ entries = <<>>
    /\ cpc' = "rendered"
    /\ svgDoc0' = IF firstDone THEN svgDoc0 ELSE svgDoc
    /\ firstDone' = TRUE
    /\ strayed' = (strayed \/ textFields # textFields0)
    /\ UNCHANGED <<notComposeVars, composeInputs, svgDoc, entries, textFields0>>

NextCompose ==
    \/ handleTextFieldChange
    \/ ComposeStart
    \/ SkipUnknownEntry
    \/ UpdateTextElement
    \/ SerializeDocument

-----------------------------------------------------------------------------
(* A print job: handlePrint and the protocol encoder *)

\* recognized paper types: 0x0a gapped label, 0x0b continuous, 0x26 marked
PaperTypes == {10, 11, 38}

\* configurations handed to the encoder, valid ones and invalid ones
PrintConfigs ==
    [deviceModel : {"M110"}, darkness : {0, 1, 15, 16}, speed : {0, 1, 5, 6},
     paperType : PaperTypes \cup {153}, paperWidth : {MaxMm},
     paperHeight : {MaxMm}, orientation : {"portrait"}]

\* variant: the paper type is not validated
ValidConfigAnyPaper(c) ==
    /\ c.darkness \in 1..15
    /\ c.speed \in 1..5

\* darkness in [1, 15], speed in [1, 5], a recognized paper type
ValidConfig(c) ==
    /\ c.darkness \in 1..15
    /\ c.speed \in 1..5
    /\ c.paperType \in PaperTypes

\* widths of the bitmaps: less than a byte, a byte, more than a byte
BitmapWidths == {1, 8, 9}

\* the bitmaps: two tones laid out in a pattern, as for the dithering pass
MonoBitmaps ==
    {[y \in 1..h |-> [x \in 1..w |->
         IF FirstColour(p, x - 1, y - 1) THEN a ELSE b]] :
        w \in BitmapWidths, h \in 1..MaxH, a \in {0, 1}, b \in {0, 1},
        p \in Patterns}

\* largest payload of a raster frame, in bytes
FrameCapacity == 2

\* bit j (0 is the most significant) of byte k of a packed row
RECURSIVE PackByte(_, _, _)
PackByte(row, k, j) ==
    IF j = 8 THEN 0
    ELSE (IF 8 * k + j + 1 <= Len(row) THEN row[8 * k + j + 1] * 2 ^ (7 - j) ELSE 0)
         + PackByte(row, k, j + 1)

\* a row packed MSB-first, 8 pixels per byte
PackRow(row) == [k \in 1..((Len(row) + 7) \div 8) |-> PackByte(row, k - 1, 0)]

\* rows from..to of the bitmap, packed, one after the other
RECURSIVE PackRows(_, _, _)
PackRows(bm, from, to) ==
    IF from > to THEN <<>> ELSE PackRow(bm[from]) \o PackRows(bm, from + 1, to)

\* number of rows that go into one raster frame
RowsPerFrame(bm) == FrameCapacity \div Len(PackRow(bm[1]))

\* variant: the speed is selected before the darkness
SetupOrderSpeedFirst == <<"init", "speed", "darkness", "paperType">>

\* the frames that precede the raster data
SetupOrder == <<"init", "darkness", "speed", "paperType">>

\* the setup frame of kind k for configuration c
SetupFrame(k, c) ==
    [kind |-> k,
     payload |-> CASE k = "darkness"  -> <<c.darkness>>
                   [] k = "speed"     -> <<c.speed>>
                   [] k = "paperType" -> <<c.paperType>>
                   [] OTHER           -> <<>>]

InitPrint ==
    /\ printerConfig \in PrintConfigs
    /\ effectPending = FALSE
    /\ sizeFor = [o \in Orientations |-> NoSize]
    /\ bitmap \in MonoBitmaps
    /\ frames = <<>>
    /\ rowsPacked = 0
    /\ ppc = "ready"

\* handlePrint: await printImage(canvas, printerConfig)
handlePrint ==
    /\ ppc = "ready"
    /\ ppc' = "validate"
    /\ UNCHANGED <<notPrintVars, bitmap, frames, rowsPacked>>

\* an invalid configuration fails with a ConfigError
RejectConfig ==
    /\ ppc = "validate"
    /\ ~ValidConfig(printerConfig)
    /\ ppc' = "ConfigError"
    /\ UNCHANGED <<notPrintVars, bitmap, frames, rowsPacked>>

\* a valid configuration: the encoder starts with the setup frames
AcceptConfig ==
    /\ ppc = "validate"
    /\ ValidConfig(printerConfig)
    /\ ppc' = "setup"
    /\ UNCHANGED <<notPrintVars, bitmap, frames, rowsPacked>>

\* the next setup frame
EmitSetupFrame ==
    /\ ppc = "setup"
    /\ frames' = Append(frames, SetupFrame(SetupOrder[Len(frames) + 1], printerConfig))
    /\ ppc' = IF Len(frames') = Len(SetupOrder) THEN "raster" ELSE "setup"
    /\ UNCHANGED <<notPrintVars, bitmap, rowsPacked>>

\* the next raster-data frame: as many rows as the capacity allows
EmitRasterFrame ==
    /\ ppc = "raster"
    /\ rowsPacked < Len(bitmap)
    /\ LET last == IF rowsPacked + RowsPerFrame(bitmap) < Len(bitmap)
                   THEN rowsPacked + RowsPerFrame(bitmap)
                   ELSE Len(bitmap)
       IN  /\ frames' = Append(frames, [kind |-> "raster",
                                        payload |-> PackRows(bitmap, rowsPacked + 1, last)])
           /\ rowsPacked' = last
    /\ UNCHANGED <<notPrintVars, bitmap, ppc>>

\* the finalize / feed frame
EmitFinalizeFrame ==
    /\ ppc = "raster"
    /\ rowsPacked = Len(bitmap)
    /\ frames' = Append(frames, [kind |-> "finalize", payload |-> <<>>])
    /\ ppc' = "encoded"
    /\ UNCHANGED <<notPrintVars, bitmap, rowsPacked>>

NextPrint ==
    \/ handlePrint
    \/ RejectConfig
    \/ AcceptConfig
    \/ EmitSetupFrame
    \/ EmitRasterFrame
    \/ EmitFinalizeFrame

-----------------------------------------------------------------------------
(* Print jobs on one connection: the Print button and the transport *)

Jobs == 1..MaxJobs
NoJob == 0

\* number of frames of a job (a short job and a longer one)
FrameCounts == {2, 3}

\* variant: a write sequence starts whether or not another is in flight
MayStartAlways(h) == TRUE

\* at most one in-flight write sequence per connection handle
MayStart(h) == h = NoJob

InitTransmit ==
    /\ jobs = [j \in Jobs |-> [phase |-> "none", count |-> 0, sent |-> 0]]
    /\ wire = <<>>
    /\ holder = NoJob
    /\ arrivedBusy = FALSE

\* a press of the Print button (enabled whenever connected): handlePrint
\* starts a job, whatever the jobs started before are doing
PrintButton ==
    /\ \E j \in Jobs :
          /\ jobs[j].phase = "none"
          /\ \A k \in Jobs : k < j => jobs[k].phase # "none"
          /\ \E n \in FrameCounts :
                jobs' = [jobs EXCEPT ![j] = [phase |-> "waiting", count |-> n,
                                             sent |-> 0]]
    /\ arrivedBusy' = (arrivedBusy \/ (holder # NoJob /\ wire # <<>>))
    /\ UNCHANGED <<notTransmitVars, wire, holder>>

\* the transmit phase of a job starts
StartTransmit ==
    /\ \E j \in Jobs :
          /\ jobs[j].phase = "waiting"
          /\ MayStart(holder)
          /\ jobs' = [jobs EXCEPT ![j].phase = "writing"]
          /\ holder' = j
    /\ UNCHANGED <<notTransmitVars, wire, arrivedBusy>>

\* write(handle, frame) of the next frame of a job completes
WriteFrame ==
    /\ \E j \in Jobs :
          /\ jobs[j].phase = "writing"
          /\ jobs[j].sent < jobs[j].count
          /\ jobs' = [jobs EXCEPT ![j].sent = @ + 1]
          /\ wire' = Append(wire, j)
    /\ UNCHANGED <<notTransmitVars, holder, arrivedBusy>>

\* all frames of a job are written
FinishTransmit ==
    /\ \E j \in Jobs :
          /\ jobs[j].phase = "writing"
          /\ jobs[j].sent = jobs[j].count
          /\ jobs' = [jobs EXCEPT ![j].phase = "done"]
          /\ holder' = IF holder = j THEN NoJob ELSE holder
    /\ UNCHANGED <<notTransmitVars, wire, arrivedBusy>>

\* a write fails with a WriteError: the job ends
FailTransmit ==
    /\ \E j \in Jobs :
          /\ jobs[j].phase = "writing"
          /\ jobs[j].sent < jobs[j].count
          /\ jobs' = [jobs EXCEPT ![j].phase = "failed"]
          /\ holder' = IF holder = j THEN NoJob ELSE holder
    /\ UNCHANGED <<notTransmitVars, wire, arrivedBusy>>

NextTransmit ==
    \/ PrintButton
    \/ StartTransmit
    \/ WriteFrame
    \/ FinishTransmit
    \/ FailTransmit

-----------------------------------------------------------------------------
(* The version script: main of update-version.js and CHANGELOG.md *)

\* The text of a file is a sequence of tokens: a token is a line break or
\* the text of one line.  A line is the title "# Changelog", the heading
\* "## [version] - date" of an entry, a "### label" line of the notes or a
\* "- description" line of the notes.
Nl == [kind |-> "nl", id |-> <<>>]
TitleLine == [kind |-> "title", id |-> <<>>]
HeadingLine(v) == [kind |-> "heading", id |-> v]
LabelLine(t) == [kind |-> "label", id |-> <<t>>]
CommitLine(h) == [kind |-> "commit", id |-> <<h>>]

\* const order = [...]: the types, by the position in that list
\* (1 = feat, 2 = fix, 3 = other)
TypeOrder == <<1, 2, 3>>

\* the results of getConventionalCommits the runs see
CommitLogs ==
    { <<>>,
      <<[type |-> 1, hash |-> 1]>>,
      <<[type |-> 2, hash |-> 1], [type |-> 1, hash |-> 2]>>,
      <<[type |-> 3, hash |-> 1], [type |-> 3, hash |-> 2]>> }

\* the first argument of the script
VersionArgs == {"--major", "--minor", "--patch", "none", "1.0.0"}

\* the lines of the commits of one type, each followed by a line break
RECURSIVE GroupLines(_, _)
GroupLines(commits, t) ==
    IF commits = <<>> THEN <<>>
    ELSE (IF Head(commits).type = t
             THEN <<CommitLine(Head(commits).hash), Nl>> ELSE <<>>)
         \o GroupLines(Tail(commits), t)

\* markdown of formatReleaseNotes before the trim
RECURSIVE Markdown(_, _)
Markdown(commits, order) ==
    IF order = <<>> THEN <<>>
    ELSE (IF \E i \in 1..Len(commits) : commits[i].type = Head(order)
             THEN <<LabelLine(Head(order)), Nl, Nl>>
                  \o GroupLines(commits, Head(order)) \o <<Nl>>
             ELSE <<>>)
         \o Markdown(commits, Tail(order))

\* String.prototype.trim on a text that starts with a line
RECURSIVE TrimEnd(_)
TrimEnd(t) ==
    IF t # <<>> /\ t[Len(t)] = Nl THEN TrimEnd(SubSeq(t, 1, Len(t) - 1))
    ELSE t

formatReleaseNotes(commits) == TrimEnd(Markdown(commits, TypeOrder))

\* newVersion of main
NewVersion(current, arg) ==
    CASE arg = "--major" -> <<current[1] + 1, 0, 0>>
      [] arg = "--minor" -> <<current[1], current[2] + 1, 0>>
      [] arg = "1.0.0" -> <<1, 0, 0>>
      [] OTHER -> <<current[1], current[2], current[3] + 1>>

\* newEntry of main
NewEntry(v, commits) ==
    <<HeadingLine(v), Nl, Nl>> \o formatReleaseNotes(commits) \o <<Nl, Nl>>

\* changelog.indexOf('\n## ['), counted in tokens from 0; -1 when absent
IndexOfHeading(changelog) ==
    LET found == { i \in 0..(Len(changelog) - 2) :
                      /\ changelog[i + 1] = Nl
                      /\ changelog[i + 2].kind = "heading" }
    IN IF found = {} THEN -1
       ELSE CHOOSE i \in found : \A j \in found : i <= j

\* variant: the entry is put at the end of the file
InsertIndexAtEnd(changelog) == Len(changelog)

\* insertIndex of main
InsertIndex(changelog) ==
    IF IndexOfHeading(changelog) > 0 THEN IndexOfHeading(changelog)
    ELSE Len(changelog)

\* the text main writes to CHANGELOG.md
UpdatedChangelog(changelog, newEntry) ==
    SubSeq(changelog, 1, InsertIndex(changelog)) \o <<Nl>> \o newEntry
    \o SubSeq(changelog, InsertIndex(changelog) + 1, Len(changelog))

\* the text main starts from
ReadChangelog ==
    IF historyExists THEN historyText ELSE <<TitleLine, Nl, Nl>>

InitVersion ==
    /\ packageVersion = <<1, 0, 0>>
    /\ historyExists = FALSE
    /\ historyText = <<>>
    /\ released = <<>>
    /\ runs = 0

\* one run of the script, up to the question about the GitHub release
main ==
    /\ runs < MaxRuns
    /\ runs' = runs + 1
    /\ \E arg \in VersionArgs, commits \in CommitLogs :
          IF commits = <<>>
          THEN UNCHANGED <<packageVersion, historyExists, historyText,
                           released>>
          ELSE LET newVersion == NewVersion(packageVersion, arg)
                   newEntry == NewEntry(newVersion, commits)
               IN /\ packageVersion' = newVersion
                  /\ historyExists' = TRUE
                  /\ historyText' = UpdatedChangelog(ReadChangelog, newEntry)
                  /\ released' = <<newEntry>> \o released
    /\ UNCHANGED notVersionVars

NextVersion ==
    \/ main

-----------------------------------------------------------------------------
(* Renders of the canvas: the useCanvas effect, img.onload and handlePrint *)

\* The canvas holds nothing before the first effect; the effect leaves it
\* white at the size of a state; img.onload leaves it with the dithered
\* image of the document of a state, drawn at the size the canvas has.
Canvas(p, i, z) == [paint |-> p, image |-> i, size |-> z]

InitRender ==
    /\ stateNo = 0
    /\ renderDue = TRUE
    /\ loading = {}
    /\ canvas = Canvas("none", 0, 0)
    /\ handed = {}

\* a handler of App sets the template, the field values or the config
StateChange ==
    /\ ~renderDue
    /\ stateNo < MaxChanges
    /\ stateNo' = stateNo + 1
    /\ renderDue' = TRUE
    /\ UNCHANGED <<notRenderVars, loading, canvas, handed>>

\* the effect of useCanvas: the canvas gets its size and is filled white,
\* and drawSVGTemplate starts the load of the image of the document
RenderEffect ==
    /\ renderDue
    /\ renderDue' = FALSE
    /\ canvas' = Canvas("white", stateNo, stateNo)
    /\ loading' = loading \cup {stateNo}
    /\ UNCHANGED <<notRenderVars, stateNo, handed>>

\* img.onload of one of the loading images: drawImage over the whole
\* canvas, the dithering pass, putImageData
ImageOnload ==
    /\ \E n \in loading :
          /\ loading' = loading \ {n}
          /\ canvas' = Canvas("dithered", n, canvas.size)
    /\ UNCHANGED <<notRenderVars, stateNo, renderDue, handed>>

\* handlePrint of App: the canvas element goes to printImage as it is
PrintCanvas ==
    /\ ~renderDue
    /\ handed' = handed \cup {[canvas |-> canvas, state |-> stateNo]}
    /\ UNCHANGED <<notRenderVars, stateNo, renderDue, loading, canvas>>

NextRender ==
    \/ StateChange
    \/ RenderEffect
    \/ ImageOnload
    \/ PrintCanvas

-----------------------------------------------------------------------------
(* The state of App: device connect, templates, field values, dialogs *)

\* An optional value is a set with at most one element; {} is undefined.
NoDevice == ""
Devices == {"d1"}

\* the templates: the default one and a stored one
DefaultTemplate ==
    [id |-> "default", svgContent |-> "svg0", textFieldValues |-> [a |-> "D"]]
StoredTemplate ==
    [id |-> "t1", svgContent |-> "svg1", textFieldValues |-> [a |-> "S"]]
TemplateChoices == {DefaultTemplate, StoredTemplate}

\* getDefaultConfig()
DefaultConfig ==
    [deviceModel |-> "M110", darkness |-> 8, speed |-> 5, paperType |-> 10,
     paperWidth |-> 40, paperHeight |-> 30, orientation |-> "portrait",
     svgTemplate |-> {}, svgTextFields |-> {}, lastUsedTemplateId |-> {}]

\* what is typed into the field of the form
TypedValues == {"x", "S"}

\* the changes made in the dialogs: field and value of handleChange
SetupChanges == {<<"darkness", 8>>, <<"darkness", 12>>}
PaperChanges == {<<"paperType", 10>>, <<"paperType", 11>>,
                 <<"paperWidth", 40>>, <<"paperWidth", 50>>}

PaperFields == {"paperType", "paperWidth", "paperHeight"}

\* variant: the settings are spread over the default config
SpreadOverDefault(config, settings) ==
    [f \in DOMAIN config |->
        IF f \in DOMAIN settings THEN settings[f] ELSE DefaultConfig[f]]

\* { ...config, ...settings }
Spread(config, settings) ==
    [f \in DOMAIN config |->
        IF f \in DOMAIN settings THEN settings[f] ELSE config[f]]

\* the paper fields of a config: the localConfig of PaperSettingsModal
PaperOf(config) == [f \in PaperFields |-> config[f]]

\* getTemplate(id)
getTemplate(id) ==
    IF id \in storedTemplates /\ id = StoredTemplate.id
    THEN {StoredTemplate} ELSE {}

\* variant: the last used template is not looked up
RestoredTemplateDefault(savedConfig) == DefaultTemplate

\* the template the connect effect sets for a saved config
RestoredTemplate(savedConfig) ==
    IF savedConfig.lastUsedTemplateId = {} THEN DefaultTemplate
    ELSE LET id == CHOOSE i \in savedConfig.lastUsedTemplateId : TRUE
         IN IF getTemplate(id) = {} THEN DefaultTemplate
            ELSE CHOOSE t \in getTemplate(id) : TRUE

\* if (deviceId) savePrinterConfig(deviceId, config)
SavedAfter(config) ==
    IF deviceId # NoDevice THEN [saved EXCEPT ![deviceId] = {config}]
    ELSE saved

\* setPrinterConfig(config) with a new object, and the effects of the two
\* dialogs, which run whenever the config prop is another object
SetPrinterConfig(config) ==
    /\ printerConfig' = config
    /\ setupLocal' = config
    /\ setupSynced' = TRUE
    /\ paperLocal' = PaperOf(config)

NoDialog == ~isSetupModalOpen /\ ~isPaperSettingsModalOpen

InitApp ==
    /\ deviceId = NoDevice
    /\ saved = [d \in Devices |-> {}]
    /\ storedTemplates \in SUBSET {StoredTemplate.id}
    /\ currentTemplate = DefaultTemplate
    /\ textFieldValues = DefaultTemplate.textFieldValues
    /\ printerConfig = DefaultConfig
    /\ isSetupModalOpen = FALSE
    /\ isPaperSettingsModalOpen = FALSE
    /\ setupLocal = DefaultConfig
    /\ setupSynced = TRUE
    /\ paperLocal = PaperOf(DefaultConfig)
    /\ setupEdited = FALSE
    /\ paperEdited = FALSE
    /\ cancelled = {}
    /\ lastOp = "none"

\* handleConnect, and the effect of App that runs when deviceId is set
ConnectDevice ==
    /\ deviceId = NoDevice
    /\ NoDialog
    /\ \E d \in Devices :
          /\ deviceId' = d
          /\ IF saved[d] # {}
             THEN LET savedConfig == CHOOSE c \in saved[d] : TRUE
                  IN /\ SetPrinterConfig(savedConfig)
                     /\ currentTemplate' = RestoredTemplate(savedConfig)
             ELSE /\ SetPrinterConfig(DefaultConfig)
                  /\ currentTemplate' = DefaultTemplate
    /\ textFieldValues' = currentTemplate'.textFieldValues
    /\ lastOp' = "connect"
    /\ UNCHANGED <<notAppVars, cancelled, saved, storedTemplates, isSetupModalOpen,
                   isPaperSettingsModalOpen, setupEdited, paperEdited>>

\* handleDisconnect: deviceId is cleared; the effect does nothing
DisconnectDevice ==
    /\ deviceId # NoDevice
    /\ NoDialog
    /\ deviceId' = NoDevice
    /\ lastOp' = "disconnect"
    /\ UNCHANGED <<notAppVars, cancelled, printerConfig, saved, storedTemplates,
                   currentTemplate, textFieldValues, isSetupModalOpen,
                   isPaperSettingsModalOpen, setupLocal, setupSynced, paperLocal,
                   setupEdited, paperEdited>>

\* the template manager stores or deletes the template
TemplateStoreChange ==
    /\ \E ids \in SUBSET {StoredTemplate.id} :
          /\ ids # storedTemplates
          /\ storedTemplates' = ids
    /\ lastOp' = "store"
    /\ UNCHANGED <<notAppVars, cancelled, printerConfig, deviceId, saved,
                   currentTemplate, textFieldValues, isSetupModalOpen,
                   isPaperSettingsModalOpen, setupLocal, setupSynced, paperLocal,
                   setupEdited, paperEdited>>

\* handleSelectTemplate(template), called by the template manager
handleSelectTemplate ==
    /\ deviceId # NoDevice
    /\ NoDialog
    /\ \E template \in TemplateChoices :
          /\ template = StoredTemplate => template.id \in storedTemplates
          /\ currentTemplate' = template
          /\ textFieldValues' = template.textFieldValues
          /\ LET updatedConfig ==
                     Spread(printerConfig,
                            [svgTemplate |-> {template.svgContent},
                             svgTextFields |-> {template.textFieldValues},
                             lastUsedTemplateId |-> {template.id}])
             IN /\ SetPrinterConfig(updatedConfig)
                /\ saved' = SavedAfter(updatedConfig)
    /\ lastOp' = "select"
    /\ UNCHANGED <<notAppVars, cancelled, deviceId, storedTemplates, isSetupModalOpen,
                   isPaperSettingsModalOpen, setupEdited, paperEdited>>

\* onTextFieldChange of PrinterForm: handleTextFieldChange(fieldId, value)
\* of App, with the config and its save
onTextFieldChange ==
    /\ NoDialog
    /\ \E fieldId \in DOMAIN textFieldValues, v \in TypedValues :
          LET updatedValues == [textFieldValues EXCEPT ![fieldId] = v]
              updatedConfig ==
                  Spread(printerConfig, [svgTextFields |-> {updatedValues}])
          IN /\ textFieldValues' = updatedValues
             /\ SetPrinterConfig(updatedConfig)
             /\ saved' = SavedAfter(updatedConfig)
    /\ lastOp' = "edit"
    /\ UNCHANGED <<notAppVars, cancelled, deviceId, storedTemplates, currentTemplate,
                   isSetupModalOpen, isPaperSettingsModalOpen, setupEdited,
                   paperEdited>>

\* the settings button: setIsSetupModalOpen(true)
OpenSetup ==
    /\ deviceId # NoDevice
    /\ NoDialog
    /\ isSetupModalOpen' = TRUE
    /\ setupEdited' = FALSE
    /\ lastOp' = "openSetup"
    /\ UNCHANGED <<notAppVars, cancelled, printerConfig, deviceId, saved,
                   storedTemplates, currentTemplate, textFieldValues,
                   isPaperSettingsModalOpen, setupLocal, setupSynced, paperLocal,
                   paperEdited>>

\* handleChange of PrinterSetupModal
SetupChange ==
    /\ isSetupModalOpen
    /\ \E ch \in SetupChanges :
          setupLocal' = [setupLocal EXCEPT ![ch[1]] = ch[2]]
    /\ setupSynced' = FALSE
    /\ setupEdited' = TRUE
    /\ lastOp' = "changeSetup"
    /\ UNCHANGED <<notAppVars, cancelled, printerConfig, deviceId, saved,
                   storedTemplates, currentTemplate, textFieldValues,
                   isSetupModalOpen, isPaperSettingsModalOpen, paperLocal,
                   paperEdited>>

\* Cancel, the close button or the overlay of PrinterSetupModal: onClose()
SetupCancel ==
    /\ isSetupModalOpen
    /\ isSetupModalOpen' = FALSE
    /\ cancelled' = cancelled \cup {"setup"}
    /\ lastOp' = "cancelSetup"
    /\ UNCHANGED <<notAppVars, printerConfig, deviceId, saved,
                   storedTemplates, currentTemplate, textFieldValues,
                   isPaperSettingsModalOpen, setupLocal, setupSynced, paperLocal,
                   setupEdited, paperEdited>>

\* handleSave of PrinterSetupModal: handleSaveConfig(localConfig) of App,
\* then onClose()
\* (setting the state to the object it holds starts no effect)
SetupSave ==
    /\ isSetupModalOpen
    /\ IF setupSynced
       THEN UNCHANGED <<printerConfig, setupLocal, setupSynced, paperLocal>>
       ELSE SetPrinterConfig(setupLocal)
    /\ saved' = SavedAfter(setupLocal)
    /\ isSetupModalOpen' = FALSE
    /\ cancelled' = cancelled \ {"setup"}
    /\ lastOp' = "saveSetup"
    /\ UNCHANGED <<notAppVars, deviceId, storedTemplates, currentTemplate,
                   textFieldValues, isPaperSettingsModalOpen, setupEdited,
                   paperEdited>>

\* the Paper Settings button: setIsPaperSettingsModalOpen(true)
OpenPaperSettings ==
    /\ deviceId # NoDevice
    /\ NoDialog
    /\ isPaperSettingsModalOpen' = TRUE
    /\ paperEdited' = FALSE
    /\ lastOp' = "openPaper"
    /\ UNCHANGED <<notAppVars, cancelled, printerConfig, deviceId, saved,
                   storedTemplates, currentTemplate, textFieldValues,
                   isSetupModalOpen, setupLocal, setupSynced, paperLocal, setupEdited>>

\* handleChange of PaperSettingsModal
PaperChange ==
    /\ isPaperSettingsModalOpen
    /\ \E ch \in PaperChanges :
          paperLocal' = [paperLocal EXCEPT ![ch[1]] = ch[2]]
    /\ paperEdited' = TRUE
    /\ lastOp' = "changePaper"
    /\ UNCHANGED <<notAppVars, cancelled, printerConfig, deviceId, saved,
                   storedTemplates, currentTemplate, textFieldValues,
                   isSetupModalOpen, isPaperSettingsModalOpen, setupLocal,
                   setupSynced, setupEdited>>

\* Cancel, the close button or the overlay of PaperSettingsModal
PaperCancel ==
    /\ isPaperSettingsModalOpen
    /\ isPaperSettingsModalOpen' = FALSE
    /\ cancelled' = cancelled \cup {"paper"}
    /\ lastOp' = "cancelPaper"
    /\ UNCHANGED <<notAppVars, printerConfig, deviceId, saved,
                   storedTemplates, currentTemplate, textFieldValues,
                   isSetupModalOpen, setupLocal, setupSynced, paperLocal, setupEdited,
                   paperEdited>>

\* handleSave of PaperSettingsModal: handleSavePaperSettings(localConfig)
\* of App, then onClose()
PaperSave ==
    /\ isPaperSettingsModalOpen
    /\ LET updatedConfig == Spread(printerConfig, paperLocal)
       IN /\ SetPrinterConfig(updatedConfig)
          /\ saved' = SavedAfter(updatedConfig)
    /\ isPaperSettingsModalOpen' = FALSE
    /\ cancelled' = cancelled \ {"paper"}
    /\ lastOp' = "savePaper"
    /\ UNCHANGED <<notAppVars, deviceId, storedTemplates, currentTemplate,
                   textFieldValues, isSetupModalOpen, setupEdited,
                   paperEdited>>

NextApp ==
    \/ ConnectDevice
    \/ DisconnectDevice
    \/ TemplateStoreChange
    \/ handleSelectTemplate
    \/ onTextFieldChange
    \/ OpenSetup
    \/ SetupChange
    \/ SetupCancel
    \/ SetupSave
    \/ OpenPaperSettings
    \/ PaperChange
    \/ PaperCancel
    \/ PaperSave

-----------------------------------------------------------------------------
(* Specifications *)

FitIdle ==
    /\ value = <<>>
    /\ tspanCount = 0
    /\ originalFontSize = 0
    /\ maxTextWidth = 0
    /\ metric = "proportional"
    /\ pc = "idle"
    /\ lines = <<>>
    /\ longestLine = <<>>
    /\ adjustedFontSize = 0
    /\ fontSizeAttr = 0
    /\ newTspans = <<>>
    /\ textContent = <<>>
    /\ text = <<>>
    /\ currentWidth = 0
    /\ fontSize = 0
    /\ minSize = 0
    /\ maxSize = 0
    /\ enteredSearch = FALSE
    /\ iterations = 0

DitherIdle ==
    /\ canvasW = 0
    /\ canvasH = 0
    /\ input = <<>>
    /\ data = <<>>
    /\ di = 0
    /\ oldPixel = 0
    /\ newPixel = 0
    /\ quantError = 0
    /\ dpc = "idle"

CanvasIdle ==
    /\ printerConfig = [deviceModel |-> "M110", darkness |-> 8, speed |-> 5,
                        paperType |-> 10, paperWidth |-> 0, paperHeight |-> 0,
                        orientation |-> "portrait"]
    /\ effectPending = FALSE
    /\ sizeFor = [o \in Orientations |-> NoSize]

ComposeIdle ==
    /\ composer = "drawSVGTemplate"
    /\ svgTemplate = <<>>
    /\ textFields = <<>>
    /\ svgDoc = <<>>
    /\ entries = <<>>
    /\ cpc = "idle"
    /\ textFields0 = <<>>
    /\ svgDoc0 = <<>>
    /\ firstDone = FALSE
    /\ strayed = FALSE

PrintIdle ==
    /\ bitmap = <<>>
    /\ frames = <<>>
    /\ rowsPacked = 0
    /\ ppc = "idle"

TransmitIdle ==
    /\ jobs = <<>>
    /\ wire = <<>>
    /\ holder = NoJob
    /\ arrivedBusy = FALSE

VersionIdle ==
    /\ packageVersion = <<>>
    /\ historyExists = FALSE
    /\ historyText = <<>>
    /\ released = <<>>
    /\ runs = 0

RenderIdle ==
    /\ stateNo = 0
    /\ renderDue = FALSE
    /\ loading = {}
    /\ canvas = Canvas("none", 0, 0)
    /\ handed = {}

AppIdle ==
    /\ deviceId = NoDevice
    /\ saved = <<>>
    /\ storedTemplates = {}
    /\ currentTemplate = <<>>
    /\ textFieldValues = <<>>
    /\ isSetupModalOpen = FALSE
    /\ isPaperSettingsModalOpen = FALSE
    /\ setupLocal = <<>>
    /\ setupSynced = FALSE
    /\ paperLocal = <<>>
    /\ setupEdited = FALSE
    /\ paperEdited = FALSE
    /\ cancelled = {}
    /\ lastOp = "none"

ExtraIdle == TransmitIdle /\ VersionIdle /\ RenderIdle /\ AppIdle

RestIdle == CanvasIdle /\ ComposeIdle /\ PrintIdle /\ ExtraIdle

\* composition and fitting of one field
InitFitOnly == InitFit /\ DitherIdle /\ RestIdle
SpecFit == InitFitOnly /\ [][NextFit]_vars

\* the same, with the scheduling of a synchronous function: it keeps running
FairSpecFit == SpecFit /\ WF_vars(NextFit)

\* the dithering pass over one rendered canvas
InitDitherOnly == InitDither /\ FitIdle /\ RestIdle
SpecDither == InitDitherOnly /\ [][NextDither]_vars

\* the canvas size under changes of the printer configuration
InitCanvasOnly ==
    /\ InitCanvas
    /\ FitIdle
    /\ input = <<>> /\ data = <<>> /\ di = 0
    /\ oldPixel = 0 /\ newPixel = 0 /\ quantError = 0
    /\ dpc = "idle"
    /\ ComposeIdle
    /\ PrintIdle
    /\ ExtraIdle
SpecCanvas == InitCanvasOnly /\ [][NextCanvas]_vars

\* renders of one template under changes of the field values
InitComposeOnly ==
    InitCompose /\ FitIdle /\ DitherIdle /\ CanvasIdle /\ PrintIdle /\ ExtraIdle
SpecCompose == InitComposeOnly /\ [][NextCompose]_vars

\* one print job
InitPrintOnly ==
    InitPrint /\ FitIdle /\ DitherIdle /\ ComposeIdle /\ ExtraIdle
SpecPrint == InitPrintOnly /\ [][NextPrint]_vars

\* print requests on one connection
InitTransmitOnly ==
    /\ InitTransmit
    /\ FitIdle /\ DitherIdle /\ CanvasIdle /\ ComposeIdle /\ PrintIdle
    /\ VersionIdle /\ RenderIdle /\ AppIdle
SpecTransmit == InitTransmitOnly /\ [][NextTransmit]_vars

\* runs of the version script
InitVersionOnly ==
    /\ InitVersion
    /\ FitIdle /\ DitherIdle /\ CanvasIdle /\ ComposeIdle /\ PrintIdle
    /\ TransmitIdle /\ RenderIdle /\ AppIdle
SpecVersion == InitVersionOnly /\ [][NextVersion]_vars

\* renders of the canvas under changes of the state, and prints
InitRenderOnly ==
    /\ InitRender
    /\ FitIdle /\ DitherIdle /\ CanvasIdle /\ ComposeIdle /\ PrintIdle
    /\ TransmitIdle /\ VersionIdle /\ AppIdle
SpecRender == InitRenderOnly /\ [][NextRender]_vars

\* the state of App under the operations of its user; the canvas is left
\* out
InitAppOnly ==
    /\ InitApp
    /\ effectPending = FALSE
    /\ sizeFor = [o \in Orientations |-> NoSize]
    /\ FitIdle /\ DitherIdle /\ ComposeIdle /\ PrintIdle
    /\ TransmitIdle /\ VersionIdle /\ RenderIdle
SpecApp == InitAppOnly /\ [][NextApp]_vars

-----------------------------------------------------------------------------
(* Properties of the text fitter and of the composition of one field *)

\* calculateFontSize was called for this field and has returned
CfsReturned ==
    /\ pc \in {"write", "done"}
    /\ tspanCount = 0 \/ longestLine # <<>>

\* the text runs the composed element holds
OutputLines ==
    IF tspanCount > 0 THEN newTspans
    ELSE IF textContent = <<>> THEN <<>> ELSE <<textContent>>

FitsAt(s, size) == MeasureWidth(s, size) <= maxTextWidth

\* C1: the font size calculateFontSize returns is at most the declared
\* (base) font size, for every text, box width and base size, base sizes
\* below 8 included.
C1_AtMostBase == CfsReturned => adjustedFontSize <= originalFontSize

\* C2: with a width that does not decrease as the font size grows, when the
\* box is at least as wide as the text at size 8, the text at the returned
\* size is no wider than the box.
C2_FitGuarantee ==
    (/\ metric = "proportional"
     /\ CfsReturned
     /\ FitsAt(text, MinFontSize * Scale))
    => FitsAt(text, adjustedFontSize)

\* C2 witness: the search ran, its lower bound was not an integer and was
\* floored, for a box that holds the text at size 8.
C2_Witness ==
    /\ metric = "proportional"
    /\ pc = "done"
    /\ enteredSearch
    /\ iterations >= 2
    /\ FitsAt(text, MinFontSize * Scale)
    /\ minSize % Scale # 0
    /\ adjustedFontSize = Floor(minSize)

\* C3: when the text at the base size is no wider than the box, the base
\* size is returned as it is (not floored, not enlarged) and the binary
\* search is not entered.
C3_NoNeedlessScaling ==
    (/\ metric = "proportional"
     /\ CfsReturned
     /\ text # <<>>
     /\ FitsAt(text, originalFontSize))
    => (/\ adjustedFontSize = originalFontSize
        /\ ~enteredSearch
        /\ iterations = 0)

\* C3 witness: a text that fits at a base size that is not an integer.
C3_Witness ==
    /\ metric = "proportional"
    /\ pc = "done"
    /\ text # <<>>
    /\ FitsAt(text, originalFontSize)
    /\ originalFontSize % Scale # 0
    /\ fontSizeAttr = originalFontSize

\* C4: when the text fits neither at the base size nor at size 8, exactly 8
\* is returned.
C4_MinimumSize ==
    (/\ metric = "proportional"
     /\ CfsReturned
     /\ text # <<>>
     /\ ~FitsAt(text, originalFontSize)
     /\ ~FitsAt(text, MinFontSize * Scale))
    => adjustedFontSize = MinFontSize * Scale

\* C4 witness: the search ran over a text too wide at every size.
C4_Witness ==
    /\ metric = "proportional"
    /\ pc = "done"
    /\ iterations >= 2
    /\ ~FitsAt(text, originalFontSize)
    /\ ~FitsAt(text, MinFontSize * Scale)
    /\ fontSizeAttr = MinFontSize * Scale

\* C5 as stated: for an empty value the base font size is kept and the
\* field has no output line at all, single-line and multi-line alike.
C5_EmptyNoLines ==
    (pc = "done" /\ value = <<>>)
    => (fontSizeAttr = originalFontSize /\ OutputLines = <<>>)

\* C5 amended: for an empty value the base font size is kept; a single-line
\* field gets empty text content, and a multi-line field gets exactly one
\* line, which is empty.
C5_EmptyNoText ==
    (pc = "done" /\ value = <<>>)
    => (/\ fontSizeAttr = originalFontSize
        /\ tspanCount = 0 => textContent = <<>>
        /\ tspanCount > 0 => newTspans = << <<>> >>)

\* C5 witness: a multi-line field composed with the empty value.
C5_Witness ==
    /\ pc = "done"
    /\ value = <<>>
    /\ tspanCount > 0
    /\ Len(newTspans) = 1

\* C6: whatever the measurement answers, the search loop terminates; when
\* it exits, maxSize - minSize <= 0.5 and the value returned is
\* floor(minSize), an integer.
C6_SearchTerminates ==
    /\ (pc = "loop") ~> (pc = "done")
    /\ [][(pc = "loop" /\ pc' # "loop")
           => (/\ maxSize - minSize <= Half
               /\ adjustedFontSize' = Floor(minSize)
               /\ adjustedFontSize' % Scale = 0)]_vars

\* C6 witness: a search that has returned after several iterations under a
\* measurement that is not monotone in the font size.
C6_Witness ==
    /\ metric = "arbitrary"
    /\ pc = "done"
    /\ enteredSearch
    /\ iterations >= 3
    /\ minSize > MinFontSize * Scale
    /\ maxSize < originalFontSize

\* C7: in a multi-line field all lines share one font size, and when the box
\* is at least as wide as every line at size 8, no line at the shared size
\* is wider than the box.
C7_EveryLineFits ==
    (/\ metric = "proportional"
     /\ pc = "done"
     /\ tspanCount > 0
     /\ \A k \in 1..Len(lines) : FitsAt(lines[k], MinFontSize * Scale))
    => \A k \in 1..Len(newTspans) : FitsAt(newTspans[k], fontSizeAttr)

-----------------------------------------------------------------------------
(* Properties of the dithering pass *)

Pixels == 0..(canvasW * canvasH - 1)
Col(p) == p % canvasW
Row(p) == p \div canvasW
PixelAt(x, y) == y * canvasW + x

\* the R, G and B samples of pixel p in buffer d
Samples(d, p) == <<d[4 * p], d[4 * p + 1], d[4 * p + 2]>>

\* the pixel of the current loop iteration
Current == di \div 4
\* the diffusion statements of the current iteration are about to run
Stepping == dpc = "diffuse"

\* C8: after the pass every pixel is strictly black or white: its R, G and B
\* samples are equal and are 0 or 255, for every width >= 1 and height >= 1.
C8_AllBlackOrWhite ==
    dpc = "done" => \A p \in Pixels : Samples(data, p) \in {Black, White}

\* C9: diffusion does not wrap around the row edges: processing a pixel of
\* the rightmost column changes no pixel in column 0 of a following row, and
\* processing a pixel of the leftmost column changes no pixel of the last
\* column.  (Stated for widths >= 3, where column 0 and the last column are
\* no neighbours of the opposite edge.)
C9_NoWraparound ==
    [][(Stepping /\ canvasW >= 3)
        => (/\ Col(Current) = canvasW - 1
                => \A p \in Pixels :
                     (Col(p) = 0 /\ Row(p) > Row(Current))
                        => Samples(data', p) = Samples(data, p)
            /\ Col(Current) = 0
                => \A p \in Pixels :
                     Col(p) = canvasW - 1
                        => Samples(data', p) = Samples(data, p))]_vars

\* whether adding k/16 of error qe to every sample of pixel p would leave
\* the byte range
Saturates(d, p, qe, k) ==
    \E c \in 0..2 :
        \/ d[4 * p + c] * 16000 + qe * k < 0
        \/ d[4 * p + c] * 16000 + qe * k > 255 * 16000

\* the luminance of pixel p rises by k/16 of qe, to within the rounding of
\* one byte (1.0), unless a sample saturates
RaisedBy(p, qe, k) ==
    LET rise == 16 * (OldPixel(data', 4 * p) - OldPixel(data, 4 * p))
    IN  \/ Saturates(data, p, qe, k)
        \/ (rise - k * qe <= 16000 /\ k * qe - rise <= 16000)

\* C10: for a pixel on no edge of the buffer, the error E is diffused to
\* exactly four pixels: the luminance of (x+1, y) rises by 7/16 E, of
\* (x-1, y+1) by 3/16 E, of (x, y+1) by 5/16 E, of (x+1, y+1) by 1/16 E, and
\* no other unprocessed pixel changes.
C10_WeightedDiffusion ==
    [][(/\ Stepping
        /\ Col(Current) > 0 /\ Col(Current) < canvasW - 1
        /\ Row(Current) > 0 /\ Row(Current) < canvasH - 1)
        => LET x  == Col(Current)
               y  == Row(Current)
               qe == quantError
               targets == {PixelAt(x + 1, y), PixelAt(x - 1, y + 1),
                           PixelAt(x, y + 1), PixelAt(x + 1, y + 1)}
           IN  /\ RaisedBy(PixelAt(x + 1, y), qe, 7)
               /\ RaisedBy(PixelAt(x - 1, y + 1), qe, 3)
               /\ RaisedBy(PixelAt(x, y + 1), qe, 5)
               /\ RaisedBy(PixelAt(x + 1, y + 1), qe, 1)
               /\ \A p \in Pixels \ (targets \cup {Current}) :
                     Samples(data', p) = Samples(data, p)]_vars

\* the quantization statements of one iteration have just run
Quantizing == dpc = "loop" /\ dpc' = "diffuse"

\* 1000 times the luminance 0.299 R + 0.587 G + 0.114 B of pixel p in d
Luminance(d, p) == 299 * d[4 * p] + 587 * d[4 * p + 1] + 114 * d[4 * p + 2]

Uniform(c) == \A p \in Pixels : Samples(input, p) = c

\* C13: on an all-white input the pass leaves the buffer all white and the
\* error diffused at every pixel is zero; on an all-black input it leaves the
\* buffer all black; for every buffer size.
C13_Extremes ==
    /\ Uniform(White) => (data = input /\ quantError = 0)
    /\ Uniform(Black) => data = input

\* C13 witness: the pass has finished on an all-white buffer of more than one
\* row and column.
C13_Witness ==
    /\ dpc = "done"
    /\ canvasW > 1
    /\ canvasH > 1
    /\ Uniform(White)
    /\ \A p \in Pixels : Samples(data, p) = White

\* C25: the diffusion statements change no sample of the current pixel or
\* of a pixel visited before it (error goes only to pixels of strictly
\* greater index), so a quantized pixel stays as it was set, for every
\* buffer width.
C25_QuantizedFinal ==
    [][Stepping => \A p \in Pixels :
                      p <= Current => Samples(data', p) = Samples(data, p)]_vars

-----------------------------------------------------------------------------
(* Properties of the composed document *)

Rendered == cpc = "rendered"

\* the text elements of the template that have tspans
MultiLineIds == {id \in TemplateIds : Len(svgTemplate[id].tspans) > 0}

\* the content of element e is that of value v
ShowsValue(e, v) ==
    IF Len(e.tspans) > 0
    THEN [i \in DOMAIN e.tspans |-> e.tspans[i].text] = Split(v)
    ELSE e.text = v

\* Vertical position of line i of element e as SVG lays it out: a y
\* attribute sets the current position, a dy attribute moves it; the
\* position before the first tspan is the y attribute of the text element.
RECURSIVE LineY(_, _)
LineY(e, i) ==
    IF i = 0 THEN e.y
    ELSE (IF e.tspans[i].hasY THEN e.tspans[i].y ELSE LineY(e, i - 1))
         + (IF e.tspans[i].hasDy THEN e.tspans[i].dy ELSE 0)

RECURSIVE SumLineY(_, _)
SumLineY(e, n) == IF n = 0 THEN 0 ELSE LineY(e, n) + SumLineY(e, n - 1)

\* the position of the placeholder's first declared line
BaseY(id) == LineY(svgTemplate[id], 1)

\* an entry without element is at the head of the entries
AtUnknown == cpc = "entries" /\ entries # <<>> /\ Head(entries) \notin TemplateIds

\* C15: an entry of the field values whose id matches no element of the
\* template causes no change to the document and no error (the loop goes on
\* with the entries after it), and the remaining entries are still
\* processed: the resolved document shows the value of every entry whose id
\* is an element of the template.
C15_UnknownIgnored ==
    /\ [][AtUnknown => /\ svgDoc' = svgDoc
                       /\ cpc' = "entries"
                       /\ entries' = Tail(entries)]_vars
    /\ [](Rendered => \A id \in TemplateIds \cap DOMAIN textFields :
                         ShowsValue(svgDoc[id], textFields[id]))

\* C15 witness: the entry without element was visited first and left the
\* document as parsed; the entries of both text elements are still to come.
C15_Witness ==
    /\ cpc = "entries"
    /\ DOMAIN textFields = FieldIds
    /\ Len(entries) = 2
    /\ svgDoc = svgTemplate

\* C16: a text element of the template that has no entry in the field
\* values has empty content in the resolved document, not the template's
\* placeholder text.
C16_MissingIsEmpty ==
    Rendered => \A id \in TemplateIds \ DOMAIN textFields :
                   /\ svgDoc[id].text = <<>>
                   /\ \A i \in DOMAIN svgDoc[id].tspans :
                         svgDoc[id].tspans[i].text = <<>>

\* the advance C17 states for the resolved element of id
StatedAdvance(id) ==
    IF Len(svgTemplate[id].tspans) >= 2
    THEN LineY(svgTemplate[id], 2) - LineY(svgTemplate[id], 1)
    ELSE (5 * svgDoc[id].fontSize) \div 4

\* the shift C18 states for the resolved element of id
StatedShift(id) ==
    IF svgTemplate[id].baseline = "middle" /\ Len(svgDoc[id].tspans) > 1
    THEN ((Len(svgDoc[id].tspans) - 1)
             * (LineY(svgDoc[id], 2) - LineY(svgDoc[id], 1))) \div 2
    ELSE 0

\* C17: in a resolved multi-line field every line is one advance below the
\* line before it, and the first line is at the placeholder's base position
\* when no centering applies; the advance is the distance of the first two
\* declared lines when the placeholder declares two or more lines, and 1.25
\* times the resolved font size when it declares one.
C17_LineAdvance ==
    Rendered
    => \A id \in MultiLineIds \cap DOMAIN textFields :
          /\ \A i \in 1..(Len(svgDoc[id].tspans) - 1) :
                LineY(svgDoc[id], i + 1) - LineY(svgDoc[id], i)
                   = StatedAdvance(id)
          /\ (svgTemplate[id].baseline # "middle" \/ Len(svgDoc[id].tspans) = 1)
             => LineY(svgDoc[id], 1) = BaseY(id)

\* C18: in a resolved multi-line field whose placeholder has the middle
\* baseline and whose value has n > 1 lines, the first line is (n-1) *
\* advance / 2 above the placeholder's base position and the mean position
\* of the n lines is the base position; with one line or another baseline
\* the first line is at the base position.
C18_VerticalCentering ==
    Rendered
    => \A id \in MultiLineIds \cap DOMAIN textFields :
          LET n == Len(svgDoc[id].tspans)
          IN  /\ LineY(svgDoc[id], 1) = BaseY(id) - StatedShift(id)
              /\ (svgTemplate[id].baseline = "middle" /\ n > 1)
                 => SumLineY(svgDoc[id], n) = n * BaseY(id)

\* a step of a render
Composing == cpc \in {"pending", "entries"}

\* C19: a render leaves the template and the field values unchanged and
\* starts from the template's markup, and after any sequence of renders a
\* render with the values of the first render yields the document the first
\* render yielded.
C19_PureComposition ==
    /\ [][Composing => /\ svgTemplate' = svgTemplate
                       /\ textFields' = textFields]_vars
    /\ [][cpc = "pending" => svgDoc' = svgTemplate]_vars
    /\ []((Rendered /\ textFields = textFields0) => svgDoc = svgDoc0)

\* C19 witness: after a render with other values has finished, a
\* render with the values of the first render has finished as well.
C19_Witness ==
    /\ Rendered
    /\ strayed
    /\ textFields = textFields0
    /\ "a" \in DOMAIN textFields
    /\ svgDoc["a"].fontSize = svgTemplate["a"].fontSize

-----------------------------------------------------------------------------
(* Properties of the canvas size *)

Swapped(c) ==
    [c EXCEPT !.paperWidth = c.paperHeight, !.paperHeight = c.paperWidth,
              !.orientation = "portrait"]

\* n is the integer part of mm * 203 / 25.4
IntegerPartOf(n, mm) ==
    /\ 254 * n <= 2030 * mm
    /\ 2030 * mm < 254 * (n + 1)

\* C14 as stated: the buffer is mmToPx(paperWidth) x mmToPx(paperHeight) in
\* portrait and mmToPx(paperHeight) x mmToPx(paperWidth) in landscape, with
\* mmToPx(mm) = mm * 203 / 25.4.
C14_ExactSize ==
    ~effectPending
    => (/\ 254 * canvasW = 2030 * DisplayWidth(printerConfig)
        /\ 254 * canvasH = 2030 * DisplayHeight(printerConfig))

\* C14 amended: the buffer's width and height are the integer parts of
\* mmToPx(paperWidth) and mmToPx(paperHeight) in portrait, and of
\* mmToPx(paperHeight) and mmToPx(paperWidth) in landscape; the landscape
\* buffer for (w, h) has the size of the portrait buffer for (h, w), and a
\* render in an orientation rendered before, with the paper size unchanged,
\* restores the size it had.
C14_Orientation ==
    /\ ~effectPending
       => (/\ printerConfig.orientation = "portrait"
              => (/\ IntegerPartOf(canvasW, printerConfig.paperWidth)
                  /\ IntegerPartOf(canvasH, printerConfig.paperHeight))
           /\ printerConfig.orientation = "landscape"
              => (/\ IntegerPartOf(canvasW, printerConfig.paperHeight)
                  /\ IntegerPartOf(canvasH, printerConfig.paperWidth)
                  /\ <<canvasW, canvasH>> = CanvasSize(Swapped(printerConfig)))
           /\ sizeFor[printerConfig.orientation] = <<canvasW, canvasH>>)
    /\ \A o \in Orientations :
          sizeFor[o] # NoSize
          => sizeFor[o] = CanvasSize([printerConfig EXCEPT !.orientation = o])

\* C14 witness: a landscape render of a non-square paper, after a portrait
\* render of the same paper, whose pixel sizes are truncated.
C14_Witness ==
    /\ ~effectPending
    /\ printerConfig.orientation = "landscape"
    /\ printerConfig.paperWidth # printerConfig.paperHeight
    /\ printerConfig.paperWidth > 0
    /\ printerConfig.paperHeight > 0
    /\ sizeFor["portrait"] = <<canvasH, canvasW>>
    /\ 254 * canvasW # 2030 * printerConfig.paperHeight

-----------------------------------------------------------------------------
(* Properties of the frames of a print job *)

\* the payloads of the raster frames, one after the other
RECURSIVE RasterBytes(_)
RasterBytes(fs) ==
    IF fs = <<>> THEN <<>>
    ELSE (IF Head(fs).kind = "raster" THEN Head(fs).payload ELSE <<>>)
         \o RasterBytes(Tail(fs))

RasterCount == Cardinality({i \in DOMAIN frames : frames[i].kind = "raster"})

\* C20: the frames of a print job with a valid configuration are, in this
\* order, one initialize, one darkness, one speed and one paper-type frame,
\* one or more raster-data frames holding the rows in the order of the
\* bitmap, and one finalize frame, which is the last frame.
C20_FrameOrder ==
    /\ \A i \in DOMAIN frames :
          /\ i = 1 <=> frames[i].kind = "init"
          /\ i = 2 <=> frames[i].kind = "darkness"
          /\ i = 3 <=> frames[i].kind = "speed"
          /\ i = 4 <=> frames[i].kind = "paperType"
          /\ i > 4 => frames[i].kind \in {"raster", "finalize"}
          /\ frames[i].kind = "finalize"
             => (i = Len(frames) /\ i > 5 /\ frames[i - 1].kind = "raster")
    /\ RasterBytes(frames) = PackRows(bitmap, 1, rowsPacked)
    /\ ppc = "encoded"
       => /\ frames[Len(frames)].kind = "finalize"
          /\ RasterCount >= 1
          /\ RasterBytes(frames) = PackRows(bitmap, 1, Len(bitmap))
    /\ (ValidConfig(printerConfig) /\ ppc # "ready") => ppc # "ConfigError"

\* C20 witness: a job whose rows differ and take more than one raster frame
\* has been encoded.
C20_Witness ==
    /\ ppc = "encoded"
    /\ RasterCount > 1
    /\ bitmap[1] # bitmap[2]
    /\ Len(bitmap[1]) > 8

\* the configuration of the job has a value out of range
OutOfRange ==
    \/ printerConfig.darkness < 1
    \/ printerConfig.darkness > 15
    \/ printerConfig.speed < 1
    \/ printerConfig.speed > 5
    \/ printerConfig.paperType \notin {10, 11, 38}

\* C21: a print request whose darkness is outside 1..15, whose speed is
\* outside 1..5 or whose paper type is none of 0x0A, 0x0B, 0x26 fails with a
\* ConfigError and produces no frame; the configuration is left as it is
\* (not clamped), so no frame carries a value of it.
C21_ConfigValidation ==
    /\ [](OutOfRange => /\ frames = <<>>
                        /\ ppc \in {"ready", "validate", "ConfigError"})
    /\ [][printerConfig' = printerConfig]_vars
    /\ [][(OutOfRange /\ ppc = "validate") => ppc' = "ConfigError"]_vars

\* C21 witness: a request with a paper type of 0x99 has failed with a
\* ConfigError, no frame produced.
C21_Witness ==
    /\ ppc = "ConfigError"
    /\ printerConfig.paperType = 153
    /\ printerConfig.darkness \in 1..15
    /\ printerConfig.speed \in 1..5
    /\ frames = <<>>

-----------------------------------------------------------------------------
(* Properties of the print jobs on one connection *)

Transmitting == {j \in Jobs : jobs[j].phase = "writing"}

\* C22: at most one print job is in its transmit phase at any time; a job
\* requested while another transmits starts writing only when that one has
\* completed or failed, and the frames of two jobs are never interleaved on
\* the connection.
C22_PrintSerialization ==
    /\ [](Cardinality(Transmitting) <= 1)
    /\ [](\A i \in DOMAIN wire : \A k \in DOMAIN wire :
             (i < k /\ wire[i] = wire[k])
             => \A m \in i..k : wire[m] = wire[i])
    /\ [][\A j \in Jobs :
             (jobs[j].phase = "waiting" /\ jobs'[j].phase = "writing")
             => \A k \in Jobs \ {j} : jobs[k].phase \in {"none", "waiting", "done", "failed"}]_vars

\* C22 witness: a job was requested while another had frames in flight, and
\* both have written frames.
C22_Witness ==
    /\ arrivedBusy
    /\ \A j \in 1..2 : jobs[j].phase \in {"done", "failed"}
    /\ \A j \in 1..2 : \E i \in DOMAIN wire : wire[i] = j

-----------------------------------------------------------------------------
(* Properties of the version script *)

\* the indices of the headings of a text
HeadingsOf(t) == { i \in 1..Len(t) : t[i].kind = "heading" }

\* the text of the entry whose heading is at index i: up to the next
\* heading or the end of the file, without the line breaks that end it
EntryAt(t, i) ==
    LET later == { j \in HeadingsOf(t) : j > i }
        stop == IF later = {} THEN Len(t)
                ELSE (CHOOSE j \in later : \A k \in later : j <= k) - 1
    IN TrimEnd(SubSeq(t, i, stop))

\* the index of the n-th heading of a text
NthHeading(t, n) ==
    CHOOSE i \in HeadingsOf(t) :
        Cardinality({ j \in HeadingsOf(t) : j <= i }) = n

\* C30: after any sequence of successful runs of the version script,
\* CHANGELOG.md starts with its title, holds exactly one entry per
\* successful run, each entry with the text that run wrote, and lists the
\* entries newest first.
C30_ChangelogHistory ==
    historyExists =>
        /\ historyText[1] = TitleLine
        /\ \A i \in 2..Len(historyText) : historyText[i] # TitleLine
        /\ Cardinality(HeadingsOf(historyText)) = Len(released)
        /\ \A n \in 1..Len(released) :
              EntryAt(historyText, NthHeading(historyText, n))
                  = TrimEnd(released[n])

\* three successful runs have written their entries
C30_Witness ==
    /\ historyExists
    /\ Len(released) >= 3
    /\ released[1] # released[2]

-----------------------------------------------------------------------------
(* Properties of the renders of the canvas *)

\* the completed rendering of a state: the dithered image of its document
\* at its size
RenderingOf(n) == Canvas("dithered", n, n)

\* C23: whenever a print is triggered, the canvas handed to the printer
\* holds the completed rendering of the state current at that moment; it
\* is never the canvas left white between a change of the state and
\* img.onload.
C23_RenderBeforePrint ==
    \A h \in handed : h.canvas = RenderingOf(h.state)

\* C24: once no effect is due and every img.onload has run, in whatever
\* order, the canvas holds the rendering of the latest state.
C24_LatestRenderWins ==
    (~renderDue /\ loading = {}) => canvas = RenderingOf(stateNo)

-----------------------------------------------------------------------------
(* Properties of the state of App *)

\* the step in which a device id becomes set
Connects == deviceId = NoDevice /\ deviceId' # NoDevice

\* the stored templates a config names as last used
LastUsedStored(config) ==
    { t \in TemplateChoices : /\ t.id \in config.lastUsedTemplateId
                              /\ t.id \in storedTemplates }

\* C26: when a device id becomes set and a config is saved for it, the
\* config becomes the saved one and the template the stored template its
\* lastUsedTemplateId names, the default template when there is none; with
\* no saved config, config and template become the defaults; in every case
\* the field values become the stored field values of the chosen template.
C26_ConnectRestores ==
    [][Connects =>
          /\ saved[deviceId'] # {} =>
                /\ printerConfig' \in saved[deviceId']
                /\ LastUsedStored(printerConfig') # {}
                      => currentTemplate' \in LastUsedStored(printerConfig')
                /\ LastUsedStored(printerConfig') = {}
                      => currentTemplate' = DefaultTemplate
          /\ saved[deviceId'] = {} =>
                /\ printerConfig' = DefaultConfig
                /\ currentTemplate' = DefaultTemplate
          /\ textFieldValues' = currentTemplate'.textFieldValues]_vars

\* a connect has restored a saved config that differs from the default,
\* and the stored template it names
C26_Witness ==
    /\ lastOp = "connect"
    /\ printerConfig.darkness # DefaultConfig.darkness
    /\ currentTemplate = StoredTemplate
    /\ textFieldValues = StoredTemplate.textFieldValues

\* C27: whenever printerConfig.svgTextFields is defined it equals the field
\* values shown and rendered.
C27_FieldsInStep ==
    printerConfig.svgTextFields # {}
        => printerConfig.svgTextFields = {textFieldValues}

\* the step in which the paper settings dialog is saved
SavesPaper == isPaperSettingsModalOpen /\ lastOp' = "savePaper"

\* C28: saving the paper settings dialog leaves deviceModel, darkness,
\* speed, orientation, svgTemplate, svgTextFields and lastUsedTemplateId of
\* the config as they were.
C28_PaperSaveLocal ==
    [][SavesPaper =>
          /\ printerConfig'.deviceModel = printerConfig.deviceModel
          /\ printerConfig'.darkness = printerConfig.darkness
          /\ printerConfig'.speed = printerConfig.speed
          /\ printerConfig'.orientation = printerConfig.orientation
          /\ printerConfig'.svgTemplate = printerConfig.svgTemplate
          /\ printerConfig'.svgTextFields = printerConfig.svgTextFields
          /\ printerConfig'.lastUsedTemplateId
                 = printerConfig.lastUsedTemplateId
          /\ DOMAIN printerConfig' = DOMAIN printerConfig]_vars

\* a paper save has changed the paper of a config whose other fields
\* differ from the defaults
C28_Witness ==
    /\ lastOp = "savePaper"
    /\ printerConfig.paperWidth # DefaultConfig.paperWidth
    /\ printerConfig.darkness # DefaultConfig.darkness
    /\ printerConfig.svgTextFields # {}
    /\ printerConfig.lastUsedTemplateId # {}

\* the steps that close a dialog without a save, and those that save one
\* which was last closed without a save and has not been edited since it
\* was opened again
CancelsDialog ==
    \/ isSetupModalOpen /\ lastOp' = "cancelSetup"
    \/ isPaperSettingsModalOpen /\ lastOp' = "cancelPaper"
SavesUnedited ==
    \/ /\ isSetupModalOpen /\ lastOp' = "saveSetup"
       /\ "setup" \in cancelled /\ ~setupEdited
    \/ /\ isPaperSettingsModalOpen /\ lastOp' = "savePaper"
       /\ "paper" \in cancelled /\ ~paperEdited

\* C29: closing a settings dialog with Cancel or the close button leaves
\* the config unchanged, and so does Save in the reopened dialog when
\* nothing was edited since it was opened again.
C29_CancelDiscards ==
    [][(CancelsDialog \/ SavesUnedited)
           => printerConfig' = printerConfig]_vars

====
